---- MODULE Spec2Model ----
(***************************************************************************)
(* Model of the animals web generator (animals_web_generator.py and        *)
(* data_fetcher.py): console input validation, the API fetch, the shaping  *)
(* of raw records, the rendering into the HTML template and the file       *)
(* writer.  Python strings are sequences of characters; a character is a   *)
(* one-character string, or "U+xxxx" for a character outside ASCII.        *)
(***************************************************************************)
EXTENDS Integers, Sequences, FiniteSets, TLC

VARIABLES
    pc,            \* position of the program or of the call under test
    call,          \* the call under test: its name and arguments
    ret,           \* outcome of the call under test: exception and value
    KEY,           \* module constant KEY, read from the environment
    prompts,       \* number of times input() has been called
    line,          \* the console line the last input() returned
    rejected,      \* whether the last loop iteration of get_input printed an error
    raw_input,     \* main: raw_input
    animal_name,   \* main: animal_name
    data,          \* main: data
    final_html,    \* main: final_html
    tmpl,          \* what load_html_template found in the template file
    file,          \* the output file animals.html
    writes,        \* completed handle.write calls on the output file
    saveRet,       \* what save_html_to_file returned
    requests,      \* HTTP requests issued by requests.get
    exc,           \* exception that reached the top level of main
    log            \* stages main has entered, in order

vars == <<pc, call, ret, KEY, prompts, line, rejected, raw_input, animal_name,
          data, final_html, tmpl, file, writes, saveRet, requests, exc, log>>

---------------------------------------------------------------------------
(* Characters and the str methods the program uses *)

RSQUO == "U+2019"      \* right single quotation mark, as in Darwin's Fox
TAB == "U+0009"
E_ACUTE_UP == "U+00C9"
E_ACUTE_LO == "U+00E9"

UpperLetters == {"A", "E", "N", "S", "F", E_ACUTE_UP}
LowerLetters == {"a", "e", "n", "s", "f", E_ACUTE_LO}

\* str.lower on one character
ToLower(c) ==
    CASE c = "A" -> "a" [] c = "E" -> "e" [] c = "N" -> "n" [] c = "S" -> "s"
      [] c = "F" -> "f" [] c = E_ACUTE_UP -> E_ACUTE_LO
      [] OTHER -> c

\* str.upper (and the title-case mapping) on one character
ToUpper(c) ==
    CASE c = "a" -> "A" [] c = "e" -> "E" [] c = "n" -> "N" [] c = "s" -> "S"
      [] c = "f" -> "F" [] c = E_ACUTE_LO -> E_ACUTE_UP
      [] OTHER -> c

IsCased(c) == c \in UpperLetters \cup LowerLetters

\* str.lower
lower(s) == [i \in 1..Len(s) |-> ToLower(s[i])]

\* str.title: a left-to-right scan that remembers whether the previous
\* character was cased; a cased character is upper-cased when it starts a
\* word and lower-cased otherwise.
RECURSIVE TitleFrom(_, _, _)
TitleFrom(s, i, previous_is_cased) ==
    IF i > Len(s) THEN <<>>
    ELSE LET c == s[i]
             out == IF ~IsCased(c) THEN c
                    ELSE IF previous_is_cased THEN ToLower(c) ELSE ToUpper(c)
         IN  <<out>> \o TitleFrom(s, i + 1, IsCased(c))

title(s) == TitleFrom(s, 1, FALSE)

\* whether old occurs in s at position i
OccursAt(s, old, i) ==
    /\ i >= 1
    /\ i + Len(old) - 1 <= Len(s)
    /\ \A k \in 1..Len(old) : s[i + k - 1] = old[k]

\* the in operator on strings
Contains(s, old) == \E i \in 1..(Len(s) + 1) : OccursAt(s, old, i)

\* str.replace(old, new) for a non-empty old: scans from the left, replaces
\* each occurrence it meets and resumes after it, never rescanning new.
RECURSIVE ReplaceFrom(_, _, _, _)
ReplaceFrom(s, old, new, i) ==
    IF i > Len(s) THEN <<>>
    ELSE IF OccursAt(s, old, i) THEN new \o ReplaceFrom(s, old, new, i + Len(old))
    ELSE <<s[i]>> \o ReplaceFrom(s, old, new, i + 1)

\* a replace that stops after the first occurrence
FirstOnlyReplace(s, old, new) ==
    IF ~Contains(s, old) THEN s
    ELSE LET i == CHOOSE j \in 1..Len(s) :
                      OccursAt(s, old, j) /\ \A k \in 1..(j - 1) : ~OccursAt(s, old, k)
         IN  SubSeq(s, 1, i - 1) \o new \o SubSeq(s, i + Len(old), Len(s))

Replace(s, old, new) == ReplaceFrom(s, old, new, 1)

\* str.strip(): removes leading and trailing whitespace
IsSpace(c) == c \in {" ", TAB, "\n"}

RECURSIVE lstrip(_)
lstrip(s) == IF s # <<>> /\ IsSpace(Head(s)) THEN lstrip(Tail(s)) ELSE s

RECURSIVE rstrip(_)
rstrip(s) ==
    IF s # <<>> /\ IsSpace(s[Len(s)]) THEN rstrip(SubSeq(s, 1, Len(s) - 1)) ELSE s

strip(s) == rstrip(lstrip(s))

\* str.join
RECURSIVE join(_, _)
join(sep, parts) ==
    IF parts = <<>> THEN <<>>
    ELSE IF Len(parts) = 1 THEN parts[1]
    ELSE parts[1] \o sep \o join(sep, Tail(parts))

\* all sequences over S of length at most n
SeqsUpTo(S, n) == UNION {[1..k -> S] : k \in 0..n}

---------------------------------------------------------------------------
(* Python values.  A value carries its type and, in s, the string itself    *)
(* (for a str) or what str() makes of it (for anything else).  "absent"     *)
(* stands for a key that the mapping does not have.                         *)

DEFAULT_NA_VALUE == <<"N","/","A">>

Val(t, s) == [t |-> t, s |-> s]
StrVal(s) == Val("str", s)
ABSENT == Val("absent", <<>>)
NONE == Val("none", <<"N","o","n","e">>)

\* dict.get(key, default) on the value found under key
Get(v, default) == IF v.t = "absent" THEN default ELSE v

\* an exception leaving a function, and a normal return
Raise(e) == [exc |-> e, val |-> <<>>]
Return(v) == [exc |-> "none", val |-> v]

---------------------------------------------------------------------------
(* Record Shaper *)

\* format_value without the test for the sentinel
format_value_always_title(value_str) ==
    IF value_str.t = "str"
    THEN Replace(title(value_str.s), <<RSQUO, "S">>, <<RSQUO, "s">>)
    ELSE IF value_str.t # "none" THEN value_str.s ELSE DEFAULT_NA_VALUE

\* format_value: value_str is the value found, never "absent"
format_value(value_str) ==
    IF value_str.t = "str" /\ lower(value_str.s) # lower(DEFAULT_NA_VALUE)
    THEN Replace(title(value_str.s), <<RSQUO, "S">>, <<RSQUO, "s">>)
    ELSE IF value_str.t # "none" THEN value_str.s ELSE DEFAULT_NA_VALUE

\* the {} that animal_data.get("characteristics", {}) defaults to
EmptyDict == [t |-> "dict", diet |-> ABSENT, type |-> ABSENT]

extract_animal_data(animal_data) ==
    IF animal_data.kind # "dict" THEN Raise("AttributeError")
    ELSE
    LET animal_name_ == Get(animal_data.name, StrVal(DEFAULT_NA_VALUE))
        locations_list == animal_data.locations
        animal_location ==
            IF locations_list.t = "list" /\ locations_list.items # <<>>
            THEN locations_list.items[1]
            ELSE StrVal(DEFAULT_NA_VALUE)
        characteristics ==
            IF animal_data.characteristics.t = "absent" THEN EmptyDict
            ELSE animal_data.characteristics
    IN  IF characteristics.t # "dict" THEN Raise("AttributeError")
        ELSE LET animal_diet == Get(characteristics.diet, StrVal(DEFAULT_NA_VALUE))
                 animal_type == Get(characteristics.type, StrVal(DEFAULT_NA_VALUE))
             IN  Return([name |-> format_value(animal_name_),
                         diet |-> format_value(animal_diet),
                         location |-> format_value(animal_location),
                         type |-> format_value(animal_type)])

---------------------------------------------------------------------------
(* Input Normalizer *)

\* the characters of the model that the class [a-zA-ZÀ-ÿ... -] holds
AllowedChars ==
    {"a", "e", "n", "s", "f", "A", "E", "N", "S", "F", E_ACUTE_UP, E_ACUTE_LO,
     " ", "-"}

AllAllowed(s) == \A i \in 1..Len(s) : s[i] \in AllowedChars

\* re.match(r'^[...]*$', s): $ matches at the end, and before a final newline
re_match_allowed_chars(s) ==
    \/ AllAllowed(s)
    \/ s # <<>> /\ s[Len(s)] = "\n" /\ AllAllowed(SubSeq(s, 1, Len(s) - 1))

\* the loop body without the test for empty input
get_input_accepts_empty(stripped) == re_match_allowed_chars(stripped)

\* one iteration of the loop of get_input on the stripped line: whether it
\* returns (otherwise it prints an error and prompts again)
get_input_accepts(stripped) ==
    IF stripped = <<>> THEN FALSE ELSE re_match_allowed_chars(stripped)

\* unidecode on one character: the closest ASCII text
UnidecodeChar(c) ==
    CASE c = E_ACUTE_UP -> <<"E">>
      [] c = E_ACUTE_LO -> <<"e">>
      [] c = RSQUO -> <<"'">>
      [] OTHER -> <<c>>

RECURSIVE unidecode(_)
unidecode(s) == IF s = <<>> THEN <<>> ELSE UnidecodeChar(Head(s)) \o unidecode(Tail(s))

process_input(raw) == lower(strip(unidecode(raw)))

---------------------------------------------------------------------------
(* Data Fetcher.  The value a fetch returns is a Python value: None, or    *)
(* what response.json() made of the body.  items holds what iterating the  *)
(* value yields (the elements of a list, the keys of a dict, the           *)
(* characters of a str), each as the record the shaper is handed.          *)

MkData(t, items, n) == [t |-> t, items |-> items, n |-> n]
NoneData == MkData("none", <<>>, 0)
EmptyList == MkData("list", <<>>, 0)

\* bool(data)
Truthy(d) ==
    CASE d.t = "none" -> FALSE
      [] d.t = "number" -> d.n # 0
      [] OTHER -> d.items # <<>>

KeyMissing(key) == key \in {"unset", ""}

\* fetch_api_data without the test for a missing key
fetch_api_data_no_key_check(key, http) ==
    IF http.kind # "ok"
    THEN [exc |-> "none", val |-> NoneData, requests |-> 1]
    ELSE [exc |-> "none", val |-> http.body, requests |-> 1]

\* fetch_api_data of animals_web_generator.py: key is KEY, http is what requests.get and
\* raise_for_status meet (a RequestException, or a response with a JSON body)
fetch_api_data(key, http) ==
    IF KeyMissing(key)
    THEN [exc |-> "none", val |-> NoneData, requests |-> 0]
    ELSE IF http.kind # "ok"
    THEN [exc |-> "none", val |-> NoneData, requests |-> 1]
    ELSE [exc |-> "none", val |-> http.body, requests |-> 1]

\* fetch_api_data of data_fetcher.py
df_fetch_api_data(key, http) ==
    IF KeyMissing(key)
    THEN [exc |-> "none", val |-> NoneData, requests |-> 0]
    ELSE IF http.kind # "ok"
    THEN [exc |-> "none", val |-> NoneData, requests |-> 1]
    ELSE [exc |-> "none", val |-> http.body, requests |-> 1]

\* fetch_animals_data of animals_web_generator.py
fetch_animals_data(key, http) ==
    LET r == fetch_api_data(key, http)
    IN  IF r.val.t = "none" THEN [r EXCEPT !.val = NoneData] ELSE r

\* fetch_animals_data of data_fetcher.py
df_fetch_animals_data(key, http) ==
    LET r == df_fetch_api_data(key, http)
    IN  IF r.val.t = "none" THEN [r EXCEPT !.val = NoneData]
        ELSE IF ~Truthy(r.val) THEN [r EXCEPT !.val = EmptyList]
        ELSE IF r.val.t = "number" THEN [r EXCEPT !.exc = "TypeError", !.val = NoneData]
        ELSE r

---------------------------------------------------------------------------
(* HTML Renderer *)

HTML_PLACEHOLDER_TEXT == <<"_","_","R","E","P","L","A","C","E","_","A","N","I","M","A","L","S","_","I","N","F","O","_","_">>

CardOpen == <<"<","l","i"," ","c","l","a","s","s","=","'","c","a","r","d","s","_","_","i","t","e","m","'",">","<","d","i","v"," ","c","l","a","s","s","=","'","c","a","r","d","_","_","t","i","t","l","e","'",">">>
CardDiet == <<"<","/","d","i","v",">","<","p"," ","c","l","a","s","s","=","'","c","a","r","d","_","_","t","e","x","t","'",">","<","s","t","r","o","n","g",">","D","i","e","t",":","<","/","s","t","r","o","n","g",">"," ">>
CardLocation == <<"<","b","r","/",">","<","s","t","r","o","n","g",">","L","o","c","a","t","i","o","n",":","<","/","s","t","r","o","n","g",">"," ">>
CardType == <<"<","b","r","/",">","<","s","t","r","o","n","g",">","T","y","p","e",":","<","/","s","t","r","o","n","g",">"," ">>
CardClose == <<"<","b","r","/",">","<","/","p",">","<","/","l","i",">">>
NotFoundOpen == <<"<","h","2"," ","s","t","y","l","e","=","\"","t","e","x","t","-","a","l","i","g","n",":"," ","c","e","n","t","e","r",";"," ","f","o","n","t","-","s","i","z","e",":"," ","3","0","p","t",";"," ","f","o","n","t","-","w","e","i","g","h","t",":"," ","n","o","r","m","a","l",";","\"",">","T","h","e"," ","a","n","i","m","a","l"," ","\"">>
NotFoundClose == <<"\""," ","d","o","e","s"," ","n","o","t"," ","e","x","i","s","t",".","<","/","h","2",">">>

\* load_html_template on the template file: missing, unreadable, not UTF-8,
\* or readable with text
load_html_template(f) ==
    CASE f.cond = "FileNotFoundError" -> Return(Val("none", <<>>))
      [] f.cond = "IOError" -> Return(Val("none", <<>>))
      [] f.cond = "UnicodeDecodeError" -> Raise("UnicodeDecodeError")
      [] OTHER -> Return(StrVal(f.text))

RECURSIVE ProcessLoop(_, _)
ProcessLoop(items, animals_list) ==
    IF items = <<>> THEN Return(animals_list)
    ELSE LET processed_animal_dict == extract_animal_data(Head(items))
         IN  IF processed_animal_dict.exc # "none" THEN Raise(processed_animal_dict.exc)
             ELSE ProcessLoop(Tail(items), Append(animals_list, processed_animal_dict.val))

\* process_animals_data without the test for None
process_animals_data_none_raises(d) ==
    IF d.t \in {"none", "number"} THEN Raise("TypeError")
    ELSE ProcessLoop(d.items, <<>>)

process_animals_data(d) ==
    IF d.t = "none" THEN Return(<<>>)
    ELSE IF d.t = "number" THEN Raise("TypeError")
    ELSE ProcessLoop(d.items, <<>>)

create_animal_html_card(animal_obj) ==
    CardOpen \o animal_obj.name \o CardDiet \o animal_obj.diet
        \o CardLocation \o animal_obj.location \o CardType \o animal_obj.type
        \o CardClose

generate_animals_html_content(d, name) ==
    LET animals_list == process_animals_data(d)
    IN  IF animals_list.exc # "none" THEN animals_list
        ELSE IF Len(animals_list.val) = 0
        THEN Return(NotFoundOpen \o title(name) \o NotFoundClose)
        ELSE Return(join(<<"\n", "\n">>,
                         [i \in 1..Len(animals_list.val) |->
                              create_animal_html_card(animals_list.val[i])]))

\* create_final_html replacing only the first token
create_final_html_first_only(d, name, f) ==
    LET html_template == load_html_template(f)
    IN  IF html_template.exc # "none" THEN html_template
        ELSE IF html_template.val.t = "none" THEN Return(<<>>)
        ELSE LET animals_html_content == generate_animals_html_content(d, name)
             IN  IF animals_html_content.exc # "none" THEN animals_html_content
                 ELSE IF Contains(html_template.val.s, HTML_PLACEHOLDER_TEXT)
                 THEN Return(FirstOnlyReplace(html_template.val.s, HTML_PLACEHOLDER_TEXT,
                                              animals_html_content.val))
                 ELSE Return(<<>>)

\* create_final_html without the test for the token
create_final_html_no_placeholder_check(d, name, f) ==
    LET html_template == load_html_template(f)
    IN  IF html_template.exc # "none" THEN html_template
        ELSE IF html_template.val.t = "none" THEN Return(<<>>)
        ELSE LET animals_html_content == generate_animals_html_content(d, name)
             IN  IF animals_html_content.exc # "none" THEN animals_html_content
                 ELSE Return(Replace(html_template.val.s, HTML_PLACEHOLDER_TEXT,
                                     animals_html_content.val))

create_final_html(d, name, f) ==
    LET html_template == load_html_template(f)
    IN  IF html_template.exc # "none" THEN html_template
        ELSE IF html_template.val.t = "none" THEN Return(<<>>)
        ELSE LET animals_html_content == generate_animals_html_content(d, name)
             IN  IF animals_html_content.exc # "none" THEN animals_html_content
                 ELSE IF Contains(html_template.val.s, HTML_PLACEHOLDER_TEXT)
                 THEN Return(Replace(html_template.val.s, HTML_PLACEHOLDER_TEXT,
                                     animals_html_content.val))
                 ELSE Return(<<>>)

---------------------------------------------------------------------------
(* File Writer *)

\* save_html_to_file on the output file holding old: disk is "ok", or open()
\* raises IOError ("open_fails"), or handle.write raises IOError after open()
\* truncated the file ("write_fails")
save_html_to_file(html_content, old, disk) ==
    IF html_content = <<>>
    THEN [exc |-> "none", val |-> FALSE, file |-> old, writes |-> 0]
    ELSE CASE disk = "open_fails" ->
                [exc |-> "none", val |-> FALSE, file |-> old, writes |-> 0]
           [] disk = "write_fails" ->
                [exc |-> "none", val |-> FALSE, file |-> <<>>, writes |-> 0]
           [] OTHER ->
                [exc |-> "none", val |-> TRUE, file |-> html_content, writes |-> 1]

---------------------------------------------------------------------------
(* Inputs of the shaper *)

MaxStr == 3        \* longest string handed to format_value
MaxLocs == 2       \* longest locations list of a raw record

FmtChars == {"n", "N", "/", "a", "A", RSQUO, "s", "S", " "}

NonStrValues ==
    {NONE, Val("int", <<"7">>), Val("bool", <<"T","r","u","e">>),
     Val("float", <<"1",".","5">>), Val("list", <<"[","]">>)}

FmtValues == {StrVal(s) : s \in SeqsUpTo(FmtChars, MaxStr)} \cup NonStrValues

\* values met under the keys of a raw record
FieldValues ==
    {ABSENT, NONE, StrVal(<<"n","/","a">>), StrVal(<<"f","a","n",RSQUO,"s">>),
     Val("int", <<"7">>)}

ListItems == FieldValues \ {ABSENT}

LocationsValues ==
    {[t |-> t, items |-> <<>>] : t \in {"absent", "none", "str", "int"}}
        \cup {[t |-> "list", items |-> l] : l \in SeqsUpTo(ListItems, MaxLocs)}

CharacteristicsValues ==
    {[t |-> t, diet |-> ABSENT, type |-> ABSENT] : t \in {"absent", "none", "str", "list"}}
        \cup {[t |-> "dict", diet |-> d, type |-> y] : d, y \in FieldValues}

\* a JSON object met as an element of the response
RawRecords ==
    {[kind |-> "dict", name |-> n, locations |-> l, characteristics |-> c] :
        n \in FieldValues, l \in LocationsValues, c \in CharacteristicsValues}

\* a JSON value that is not an object, met where a record is expected
NonDict(kind) ==
    [kind |-> kind, name |-> ABSENT, locations |-> [t |-> "absent", items |-> <<>>],
     characteristics |-> [t |-> "absent", diet |-> ABSENT, type |-> ABSENT]]

\* the record with no fields at all
EmptyRecord ==
    [kind |-> "dict", name |-> ABSENT, locations |-> [t |-> "absent", items |-> <<>>],
     characteristics |-> [t |-> "absent", diet |-> ABSENT, type |-> ABSENT]]

---------------------------------------------------------------------------
(* The state outside a call under test, and outside main *)

NoCall == [op |-> "none"]
NoRet == [exc |-> "none", val |-> <<>>]

Unread == [cond |-> "unread", text |-> <<>>]
OldFile == <<"o","l","d">>      \* what animals.html holds before the run

MainIdle ==
    /\ KEY = "unset" /\ prompts = 0 /\ line = <<>> /\ rejected = FALSE
    /\ raw_input = <<>> /\ animal_name = <<>> /\ data = NoneData
    /\ final_html = <<>> /\ tmpl = Unread /\ file = OldFile /\ writes = 0
    /\ saveRet = "none" /\ requests = 0 /\ exc = "none" /\ log = <<>>

mainVars == <<KEY, prompts, line, rejected, raw_input, animal_name, data,
              final_html, tmpl, file, writes, saveRet, requests, exc, log>>

---------------------------------------------------------------------------
(* SpecShape: format_value and extract_animal_data applied to drawn inputs *)

InitShape ==
    /\ pc = "call"
    /\ ret = NoRet
    /\ MainIdle
    /\ \/ \E v \in FmtValues : call = [op |-> "format_value", arg |-> v]
       \/ \E r \in RawRecords : call = [op |-> "extract_animal_data", arg |-> r]

CallFormatValue ==
    /\ pc = "call"
    /\ call.op = "format_value"
    /\ ret' = Return(format_value(call.arg))
    /\ pc' = "returned"
    /\ UNCHANGED <<call, mainVars>>

CallExtractAnimalData ==
    /\ pc = "call"
    /\ call.op = "extract_animal_data"
    /\ ret' = extract_animal_data(call.arg)
    /\ pc' = "returned"
    /\ UNCHANGED <<call, mainVars>>

NextShape == CallFormatValue \/ CallExtractAnimalData

SpecShape == InitShape /\ [][NextShape]_vars

---------------------------------------------------------------------------
(* Inputs of the fetcher and of the renderer *)

MaxRecs == 2       \* most records in a response body
MaxChunks == 2     \* most pieces a template text is put together from

FoxRecord ==
    [kind |-> "dict", name |-> StrVal(<<"f","a","n">>),
     locations |-> [t |-> "list", items |-> <<StrVal(<<"a","s">>), StrVal(<<"n">>)>>],
     characteristics |-> [t |-> "dict", diet |-> StrVal(<<"n","/","a">>),
                          type |-> StrVal(<<"s","a","n",RSQUO,"s">>)]]

NullCharacteristics ==
    [kind |-> "dict", name |-> StrVal(<<"f","a","n">>),
     locations |-> [t |-> "absent", items |-> <<>>],
     characteristics |-> [t |-> "none", diet |-> ABSENT, type |-> ABSENT]]

BodyRecords == {EmptyRecord, FoxRecord, NullCharacteristics, NonDict("number")}

\* what response.json() returns: a list of elements, null, an object (empty
\* or with one key), a string (empty or of one character), a number
Bodies ==
    {MkData("list", l, 0) : l \in SeqsUpTo(BodyRecords, MaxRecs)}
        \cup {NoneData,
              MkData("dict", <<>>, 0), MkData("dict", <<NonDict("str")>>, 0),
              MkData("str", <<>>, 0), MkData("str", <<NonDict("str")>>, 0),
              MkData("number", <<>>, 0), MkData("number", <<>>, 5)}

HttpOutcomes ==
    {[kind |-> k, body |-> NoneData] : k \in {"ConnectionError", "Timeout", "HTTPError"}}
        \cup {[kind |-> "ok", body |-> b] : b \in Bodies}

Keys == {"unset", "", "secret"}
Queries == {<<"f","a","n">>, <<"a","-","s"," ","f">>}

P == <<"<","p",">">>
TokTail == <<"R","E","P","L","A","C","E","_","A","N","I","M","A","L","S","_","I","N","F","O","_","_">>

RECURSIVE Flatten(_)
Flatten(parts) == IF parts = <<>> THEN <<>> ELSE Head(parts) \o Flatten(Tail(parts))

\* template texts: with no token, with one, with several, with the token
\* next to text that begins or ends like it
Chunks == {P, HTML_PLACEHOLDER_TEXT, TokTail, <<"_">>}
Templates == {Flatten(c) : c \in SeqsUpTo(Chunks, MaxChunks)}

FailedTemplateFiles ==
    {[cond |-> c, text |-> <<>>] : c \in {"FileNotFoundError", "IOError", "UnicodeDecodeError"}}

TemplateFiles == FailedTemplateFiles \cup {[cond |-> "ok", text |-> t] : t \in Templates}

MainTemplateFiles ==
    FailedTemplateFiles
        \cup {[cond |-> "ok", text |-> t] :
                 t \in {<<>>, P, P \o HTML_PLACEHOLDER_TEXT \o P,
                        HTML_PLACEHOLDER_TEXT \o <<"_">> \o HTML_PLACEHOLDER_TEXT}}

DiskConditions == {"ok", "open_fails", "write_fails"}

---------------------------------------------------------------------------
(* Spec: one run of main *)

MaxPrompts == 3    \* prompts followed in one run of get_input
MaxLine == 2       \* longest console line in SpecInput

MainLines ==
    {<<>>, <<" ">>, <<"1">>, <<"f","a","n">>, <<TAB, E_ACUTE_UP, " ">>, <<"a","-","S">>}

ConsoleChars == {"a", E_ACUTE_UP, " ", "-", TAB, "1"}
ConsoleLines == SeqsUpTo(ConsoleChars, MaxLine)

Init ==
    /\ pc = "get_input"
    /\ call = NoCall
    /\ ret = NoRet
    /\ KEY \in Keys
    /\ prompts = 0 /\ line = <<>> /\ rejected = FALSE
    /\ raw_input = <<>> /\ animal_name = <<>> /\ data = NoneData
    /\ final_html = <<>> /\ tmpl = Unread /\ file = OldFile /\ writes = 0
    /\ saveRet = "none" /\ requests = 0 /\ exc = "none" /\ log = <<>>

\* one iteration of the while loop of get_input
GetInput(lines) ==
    /\ pc = "get_input"
    /\ prompts < MaxPrompts
    /\ \E l \in lines :
          /\ line' = l
          /\ prompts' = prompts + 1
          /\ IF get_input_accepts(strip(l))
             THEN /\ raw_input' = strip(l)
                  /\ rejected' = FALSE
                  /\ pc' = "process_input"
                  /\ log' = Append(log, "get_input")
             ELSE /\ rejected' = TRUE
                  /\ UNCHANGED <<raw_input, pc, log>>
    /\ UNCHANGED <<call, ret, KEY, animal_name, data, final_html, tmpl, file,
                   writes, saveRet, requests, exc>>

ProcessInput ==
    /\ pc = "process_input"
    /\ animal_name' = process_input(raw_input)
    /\ pc' = "fetch_animals_data"
    /\ log' = Append(log, "process_input")
    /\ UNCHANGED <<call, ret, KEY, prompts, line, rejected, raw_input, data,
                   final_html, tmpl, file, writes, saveRet, requests, exc>>

FetchAnimalsData ==
    /\ pc = "fetch_animals_data"
    /\ \E http \in HttpOutcomes :
          LET r == fetch_animals_data(KEY, http)
          IN  /\ data' = r.val
              /\ requests' = requests + r.requests
    /\ pc' = "create_final_html"
    /\ log' = Append(log, "fetch_animals_data")
    /\ UNCHANGED <<call, ret, KEY, prompts, line, rejected, raw_input, animal_name,
                   final_html, tmpl, file, writes, saveRet, exc>>

CreateFinalHtml ==
    /\ pc = "create_final_html"
    /\ log' = Append(log, "create_final_html")
    /\ \E f \in MainTemplateFiles :
          LET r == create_final_html(data, animal_name, f)
          IN  /\ tmpl' = f
              /\ IF r.exc # "none"
                 THEN exc' = r.exc /\ pc' = "crashed" /\ UNCHANGED final_html
                 ELSE final_html' = r.val /\ pc' = "if_final_html" /\ UNCHANGED exc
    /\ UNCHANGED <<call, ret, KEY, prompts, line, rejected, raw_input, animal_name,
                   data, file, writes, saveRet, requests>>

SaveHtmlToFile ==
    /\ pc = "if_final_html"
    /\ final_html # <<>>
    /\ \E disk \in DiskConditions :
          LET r == save_html_to_file(final_html, file, disk)
          IN  /\ file' = r.file
              /\ writes' = writes + r.writes
              /\ saveRet' = IF r.val THEN "True" ELSE "False"
    /\ pc' = "done"
    /\ log' = Append(log, "save_html_to_file")
    /\ UNCHANGED <<call, ret, KEY, prompts, line, rejected, raw_input, animal_name,
                   data, final_html, tmpl, requests, exc>>

SkipSave ==
    /\ pc = "if_final_html"
    /\ final_html = <<>>
    /\ pc' = "done"
    /\ UNCHANGED <<call, ret, KEY, prompts, line, rejected, raw_input, animal_name,
                   data, final_html, tmpl, file, writes, saveRet, requests, exc, log>>

Next ==
    \/ GetInput(MainLines)
    \/ ProcessInput
    \/ FetchAnimalsData
    \/ CreateFinalHtml
    \/ SaveHtmlToFile
    \/ SkipSave

Spec == Init /\ [][Next]_vars

---------------------------------------------------------------------------
(* SpecInput: get_input and process_input on every short console line *)

NextInput == GetInput(ConsoleLines) \/ ProcessInput

InitInput ==
    /\ pc = "get_input"
    /\ call = NoCall
    /\ ret = NoRet
    /\ MainIdle

SpecInput == InitInput /\ [][NextInput]_vars

---------------------------------------------------------------------------
(* SpecFetch: the four fetch functions applied to drawn keys and responses *)

FetchOps ==
    {"fetch_api_data", "fetch_animals_data",
     "data_fetcher.fetch_api_data", "data_fetcher.fetch_animals_data"}

InitFetch ==
    /\ pc = "call"
    /\ ret = NoRet
    /\ MainIdle
    /\ \E op \in FetchOps, k \in Keys, q \in Queries, h \in HttpOutcomes :
          call = [op |-> op, key |-> k, name |-> q, http |-> h]

CallFetch ==
    /\ pc = "call"
    /\ call.op \in FetchOps
    /\ ret' = CASE call.op = "fetch_api_data" -> fetch_api_data(call.key, call.http)
                [] call.op = "fetch_animals_data" -> fetch_animals_data(call.key, call.http)
                [] call.op = "data_fetcher.fetch_api_data" ->
                       df_fetch_api_data(call.key, call.http)
                [] OTHER -> df_fetch_animals_data(call.key, call.http)
    /\ pc' = "returned"
    /\ UNCHANGED <<call, mainVars>>

NextFetch == CallFetch

SpecFetch == InitFetch /\ [][NextFetch]_vars

---------------------------------------------------------------------------
(* SpecRender: the renderer applied to drawn data, queries and templates *)

RenderRecords == {EmptyRecord, FoxRecord, NullCharacteristics}

RenderData ==
    {NoneData} \cup {MkData("list", l, 0) : l \in SeqsUpTo(RenderRecords, MaxRecs)}

InitRender ==
    /\ pc = "call"
    /\ ret = NoRet
    /\ MainIdle
    /\ \/ \E d \in RenderData, q \in Queries :
             call = [op |-> "generate_animals_html_content", d |-> d, name |-> q,
                     f |-> Unread]
       \/ \E d \in RenderData, q \in Queries, f \in TemplateFiles :
             call = [op |-> "create_final_html", d |-> d, name |-> q, f |-> f]

CallGenerateAnimalsHtmlContent ==
    /\ pc = "call"
    /\ call.op = "generate_animals_html_content"
    /\ ret' = generate_animals_html_content(call.d, call.name)
    /\ pc' = "returned"
    /\ UNCHANGED <<call, mainVars>>

CallCreateFinalHtml ==
    /\ pc = "call"
    /\ call.op = "create_final_html"
    /\ ret' = create_final_html(call.d, call.name, call.f)
    /\ pc' = "returned"
    /\ UNCHANGED <<call, mainVars>>

NextRender == CallGenerateAnimalsHtmlContent \/ CallCreateFinalHtml

SpecRender == InitRender /\ [][NextRender]_vars

---------------------------------------------------------------------------
(* Claims about the shaper *)

IsString(x) == DOMAIN x = 1..Len(x) /\ \A i \in 1..Len(x) : x[i] \in STRING

Extracted == pc = "returned" /\ call.op = "extract_animal_data"
Formatted == pc = "returned" /\ call.op = "format_value"

\* C3 as stated: shaping is total: for every raw record mapping, whatever is under
\* name, locations and characteristics, extract_animal_data raises nothing
\* and returns a mapping with exactly the keys name, diet, location, type,
\* each a string.
C3_AsStated ==
    (Extracted /\ call.arg.kind = "dict") =>
        /\ ret.exc = "none"
        /\ DOMAIN ret.val = {"name", "diet", "location", "type"}
        /\ \A k \in {"name", "diet", "location", "type"} : IsString(ret.val[k])

\* the character str.title leaves at position i of s
TitleChar(s, i) ==
    IF ~IsCased(s[i]) THEN s[i]
    ELSE IF i > 1 /\ IsCased(s[i - 1]) THEN ToLower(s[i]) ELSE ToUpper(s[i])

IsTitleOf(r, s) ==
    /\ Len(r) = Len(s)
    /\ \A i \in 1..Len(s) : r[i] = TitleChar(s, i)

\* title-cased, with an S that title-casing left after RSQUO lower-cased
IsFixedTitleOf(r, s) ==
    /\ Len(r) = Len(s)
    /\ \A i \in 1..Len(s) :
          r[i] = IF i > 1 /\ TitleChar(s, i - 1) = RSQUO /\ TitleChar(s, i) = "S"
                 THEN "s" ELSE TitleChar(s, i)

AllSentinels(d) ==
    /\ d.name = DEFAULT_NA_VALUE /\ d.diet = DEFAULT_NA_VALUE
    /\ d.location = DEFAULT_NA_VALUE /\ d.type = DEFAULT_NA_VALUE

\* C7 as stated: format_value returns "N/A" for None and for the sentinel,
\* a record with all fields absent is shaped to four sentinels, and every
\* other string value is returned title-cased.
C7_AsStated ==
    /\ Formatted =>
        /\ call.arg.t = "none" => ret.val = DEFAULT_NA_VALUE
        /\ call.arg = StrVal(DEFAULT_NA_VALUE) => ret.val = DEFAULT_NA_VALUE
        /\ (call.arg.t = "str" /\ call.arg.s # DEFAULT_NA_VALUE)
               => IsTitleOf(ret.val, call.arg.s)
    /\ (Extracted /\ call.arg = EmptyRecord)
           => (ret.exc = "none" /\ AllSentinels(ret.val))

\* C7 amended: format_value returns "N/A" for None, returns unchanged every
\* string that equals the sentinel when case is ignored ("N/A", "n/a", ...),
\* returns every other string title-cased with each S that follows a right
\* single quotation mark lower-cased again, and returns str() of any other
\* value; a record with all fields absent is shaped to four sentinels.
C7_SentinelNeverReformatted ==
    /\ Formatted =>
        /\ ret.exc = "none"
        /\ call.arg.t = "none" => ret.val = DEFAULT_NA_VALUE
        /\ (call.arg.t = "str" /\ lower(call.arg.s) = <<"n","/","a">>)
               => ret.val = call.arg.s
        /\ (call.arg.t = "str" /\ lower(call.arg.s) # <<"n","/","a">>)
               => IsFixedTitleOf(ret.val, call.arg.s)
        /\ call.arg.t \notin {"none", "str"} => ret.val = call.arg.s
    /\ (Extracted /\ call.arg = EmptyRecord)
           => (ret.exc = "none" /\ AllSentinels(ret.val))

\* a lower-case spelling of the sentinel came back as it went in
C7_Witness ==
    /\ Formatted
    /\ call.arg = StrVal(<<"n","/","a">>)
    /\ ret.val = <<"n","/","a">>

---------------------------------------------------------------------------
(* Claims about the input normalizer *)

\* s is l without its leading and trailing whitespace
IsStripOf(s, l) ==
    \E i \in 1..(Len(l) + 1), j \in 0..Len(l) :
        /\ s = SubSeq(l, i, j)
        /\ \A k \in 1..(i - 1) : IsSpace(l[k])
        /\ \A k \in (j + 1)..Len(l) : IsSpace(l[k])
        /\ s # <<>> => (~IsSpace(s[1]) /\ ~IsSpace(s[Len(s)]))

Prompted == prompts >= 1
InputReturned == pc # "get_input"

\* C5 as stated: a non-empty line of allowed characters only is accepted at the first
\* prompt; a line with a disallowed character is answered with an error and
\* a new prompt; what get_input returns matches the allow-list.
C5_AsStated ==
    /\ (prompts = 1 /\ line # <<>> /\ AllAllowed(line)) => InputReturned
    /\ (Prompted /\ ~AllAllowed(line)) => (rejected /\ ~InputReturned)
    /\ InputReturned => AllAllowed(raw_input)

\* C5 amended: get_input judges the line with its leading and trailing
\* whitespace removed.  At every prompt it returns that stripped line when it
\* is non-empty and holds allowed characters only (so a line of allowed
\* characters is accepted at the first prompt unless it is empty or all
\* spaces, and a tab at either end is dropped, not rejected); otherwise it
\* prints an error and prompts again.  What it returns is non-empty and
\* matches the allow-list.
C5_GetInputAcceptsStripped ==
    /\ (Prompted /\ ~InputReturned) =>
          /\ rejected
          /\ \A s \in SeqsUpTo(ConsoleChars, Len(line)) :
                IsStripOf(s, line) => (s = <<>> \/ ~AllAllowed(s))
    /\ InputReturned =>
          /\ ~rejected
          /\ IsStripOf(raw_input, line)
          /\ raw_input # <<>>
          /\ AllAllowed(raw_input)

\* a line with a tab in front was accepted at the first prompt
C5_Witness ==
    /\ pc = "process_input"
    /\ prompts = 1
    /\ line = <<TAB, "a">>
    /\ raw_input = <<"a">>

---------------------------------------------------------------------------
(* Claims about the fetcher *)

FetchReturned == pc = "returned" /\ call.op \in FetchOps

\* C4: with KEY unset or empty, fetch_api_data and fetch_animals_data (of
\* both modules) return None for every query and every state of the network,
\* and issue no HTTP request.
C4_MissingKeyNoRequest ==
    (FetchReturned /\ call.key \in {"unset", ""}) =>
        /\ ret.exc = "none"
        /\ ret.val.t = "none"
        /\ ret.requests = 0

\* fetch_animals_data with an empty KEY, the API ready to answer with records
C4_Witness ==
    /\ FetchReturned
    /\ call.op = "fetch_animals_data"
    /\ call.key = ""
    /\ call.http.kind = "ok"
    /\ call.http.body.t = "list"
    /\ call.http.body.items # <<>>
    /\ ret.val.t = "none"
    /\ ret.requests = 0

---------------------------------------------------------------------------
(* Claims about the renderer *)

Rendered(op) == pc = "returned" /\ call.op = op

HasToken(f) == f.cond = "ok" /\ Contains(f.text, HTML_PLACEHOLDER_TEXT)

TheAnimal == <<"T","h","e"," ","a","n","i","m","a","l"," ","\"">>
DoesNotExist == <<"\""," ","d","o","e","s"," ","n","o","t"," ","e","x","i","s","t",".">>

TitleCased(q) == [i \in 1..Len(q) |-> TitleChar(q, i)]

\* C6: a failed fetch (None) and a lookup with no result ([]) give the same
\* outcome of create_final_html, for every query and every template file,
\* and with a template that holds the token the page says
\* The animal "<query, title-cased>" does not exist.
C6_FailureRendersAsNoMatch ==
    (Rendered("create_final_html") /\ call.d.t = "none") =>
        /\ ret = create_final_html(EmptyList, call.name, call.f)
        /\ HasToken(call.f) =>
              /\ ret.exc = "none"
              /\ Contains(ret.val, TheAnimal \o TitleCased(call.name) \o DoesNotExist)

\* a failed fetch rendered into a template that holds the token
C6_Witness ==
    /\ Rendered("create_final_html")
    /\ call.d.t = "none"
    /\ call.f = [cond |-> "ok", text |-> P \o HTML_PLACEHOLDER_TEXT]
    /\ call.name = <<"a","-","s"," ","f">>
    /\ Contains(ret.val, <<"\"","A","-","S"," ","F","\""," ","d","o","e","s">>)

\* C8 as stated: for every list of N >= 1 raw records,
\* generate_animals_html_content returns N list-item fragments in the order
\* of the records, joined by "\n\n", each the card markup with that record's
\* shaped name, diet, location and type once each.
C8_AsStated ==
    (/\ Rendered("generate_animals_html_content")
     /\ call.d.t = "list"
     /\ Len(call.d.items) >= 1
     /\ \A i \in 1..Len(call.d.items) : call.d.items[i].kind = "dict") =>
        /\ ret.exc = "none"
        /\ ret.val =
              join(<<"\n", "\n">>,
                   [i \in 1..Len(call.d.items) |->
                       LET shaped == extract_animal_data(call.d.items[i]).val
                       IN  CardOpen \o shaped.name \o CardDiet \o shaped.diet
                               \o CardLocation \o shaped.location
                               \o CardType \o shaped.type \o CardClose])

\* where the token stands in t
Occurrences(t) == {i \in 1..Len(t) : OccursAt(t, HTML_PLACEHOLDER_TEXT, i)}

\* the occurrences met by a scan from the left that resumes after each one
\* (an occurrence that begins inside an earlier one is not met)
Scanned(t) ==
    CHOOSE C \in SUBSET Occurrences(t) :
        \A i \in Occurrences(t) :
            (i \in C) <=> ~\E j \in C : j < i /\ i < j + Len(HTML_PLACEHOLDER_TEXT)

\* page is t with fragment in the place of the token at each scanned
\* occurrence, and every other character of t kept, in order
IsSubstitution(page, t, fragment) ==
    LET L == Len(HTML_PLACEHOLDER_TEXT)
        C == Scanned(t)
        Shift(k) == Cardinality({j \in C : j < k}) * (Len(fragment) - L)
    IN  /\ Len(page) = Len(t) + Cardinality(C) * (Len(fragment) - L)
        /\ \A j \in C :
              SubSeq(page, j + Shift(j), j + Shift(j) + Len(fragment) - 1) = fragment
        /\ \A k \in 1..Len(t) :
              (~\E j \in C : j <= k /\ k < j + L) => page[k + Shift(k)] = t[k]

---------------------------------------------------------------------------
(* Claims about main *)

Stages ==
    <<"get_input", "process_input", "fetch_animals_data", "create_final_html",
      "save_html_to_file">>

Finished == pc \in {"done", "crashed"}

\* the template file gave no page: it could not be loaded, or holds no token
NoPage == tmpl.cond # "unread" /\ ~HasToken(tmpl)

C2_AsStated == exc = "none" /\ pc # "crashed"

\* the fetch gave records (JSON objects), an empty list, or failed
FetchedRecordsOrNothing ==
    \/ data.t = "none"
    \/ data.t = "list" /\ \A i \in 1..Len(data.items) : data.items[i].kind = "dict"

\* C10 as stated: main enters its stages in the order input, fetch, render,
\* write, none twice; and a run whose template is readable and holds the
\* token ends with a non-empty page, one fetch and one call of the writer,
\* whatever was fetched.
C10_AsStated ==
    /\ \E n \in 0..Len(Stages) : log = SubSeq(Stages, 1, n)
    /\ (HasToken(tmpl) /\ Finished /\ FetchedRecordsOrNothing) =>
          /\ final_html # <<>>
          /\ log = Stages

====
